---------------------------- MODULE Spec2Model ----------------------------
(***************************************************************************)
(* A model of the `caseless` crate: the case-fold iterator (CaseFold), the *)
(* stream equality primitive (iter_eq), the three caseless matchers, the   *)
(* decomposition transform they compose with, and the build script that    *)
(* writes CASE_FOLDING_TABLE.                                              *)
(*                                                                         *)
(* Code points are their scalar values (65 is 'A', 0 is NUL).  An          *)
(* Option<char> is a sequence of length 0 (None) or 1 (Some(c)).           *)
(***************************************************************************)
EXTENDS Integers, Sequences, FiniteSets

VARIABLES
    input,      \* the code points handed to default_case_fold (history)
    chars,      \* CaseFold.chars: what upstream has not yielded yet
    queue,      \* CaseFold.queue: [char; 2], NUL marks an empty slot
    output,     \* the code points next() has returned so far (history)
    done,       \* the last next() returned None
    eq,         \* one run of iter_eq over two CaseFold iterators
    dec,        \* one decomposition iterator
    mat,        \* one call of a caseless matcher
    bld         \* one run of the build script

vars == <<input, chars, queue, output, done, eq, dec, mat, bld>>

NUL == 0

-----------------------------------------------------------------------------
(* Bounds of the model *)

\* longest input of the case-fold iterator
MaxLen == 3
\* usize::MAX scaled down, so that overflow of the size hint is reachable
UsizeMax == 3
\* longest operand of a run of iter_eq
MaxEqLen == 2
\* longest input of a decomposition iterator
MaxDecLen == 3
\* longest left operand of a canonical or compatibility match
MaxMatchLen == 2
\* most lines of a CaseFolding.txt handed to the build script
MaxLines == 3

-----------------------------------------------------------------------------
(* Small helpers *)

Min(a, b) == IF a <= b THEN a ELSE b

RECURSIVE SeqsUpTo(_, _)
SeqsUpTo(S, n) ==
    IF n = 0 THEN {<<>>}
    ELSE LET shorter == SeqsUpTo(S, n - 1)
         IN  shorter \cup {Append(s, x) : s \in {t \in shorter : Len(t) = n - 1}, x \in S}

RECURSIVE Flatten(_)
Flatten(ss) == IF ss = <<>> THEN <<>> ELSE Head(ss) \o Flatten(Tail(ss))

-----------------------------------------------------------------------------
(* build.rs: the table generator *)

MAX_FOLDED_CODE_POINTS == 3

\* An excerpt of CaseFolding.txt, in file order, each line as parse_line
\* splits it: the source, the status, the replacement (hex fields read as
\* numbers).
CaseFoldingTxt ==
    << [from |-> 65,    status |-> "C", to |-> <<97>>],             \* 0041 A -> a
       [from |-> 72,    status |-> "C", to |-> <<104>>],            \* 0048 H -> h
       [from |-> 73,    status |-> "C", to |-> <<105>>],            \* 0049 I -> i
       [from |-> 73,    status |-> "T", to |-> <<305>>],            \* 0049 I -> 0131
       [from |-> 75,    status |-> "C", to |-> <<107>>],            \* 004B K -> k
       [from |-> 77,    status |-> "C", to |-> <<109>>],            \* 004D M -> m
       [from |-> 83,    status |-> "C", to |-> <<115>>],            \* 0053 S -> s
       [from |-> 197,   status |-> "C", to |-> <<229>>],            \* 00C5 -> 00E5
       [from |-> 223,   status |-> "F", to |-> <<115, 115>>],       \* 00DF -> s s
       [from |-> 304,   status |-> "F", to |-> <<105, 775>>],       \* 0130 -> i 0307
       [from |-> 304,   status |-> "T", to |-> <<105>>],            \* 0130 -> i
       [from |-> 383,   status |-> "C", to |-> <<115>>],            \* 017F -> s
       [from |-> 837,   status |-> "C", to |-> <<953>>],            \* 0345 -> 03B9
       [from |-> 912,   status |-> "F", to |-> <<953, 776, 769>>],  \* 0390 -> 03B9 0308 0301
       [from |-> 919,   status |-> "C", to |-> <<951>>],            \* 0397 -> 03B7
       [from |-> 5112,  status |-> "C", to |-> <<5104>>],           \* 13F8 -> 13F0
       [from |-> 7784,  status |-> "C", to |-> <<7785>>],           \* 1E68 -> 1E69
       [from |-> 7838,  status |-> "F", to |-> <<115, 115>>],       \* 1E9E -> s s
       [from |-> 7838,  status |-> "S", to |-> <<223>>],            \* 1E9E -> 00DF
       [from |-> 8131,  status |-> "F", to |-> <<951, 953>>],       \* 1FC3 -> 03B7 03B9
       [from |-> 8490,  status |-> "C", to |-> <<107>>],            \* 212A -> k
       [from |-> 8491,  status |-> "C", to |-> <<229>>],            \* 212B -> 00E5
       [from |-> 43888, status |-> "C", to |-> <<5024>>],           \* AB70 -> 13A0
       [from |-> 64259, status |-> "F", to |-> <<102, 102, 105>>],  \* FB03 -> f f i
       [from |-> 65323, status |-> "C", to |-> <<65355>>] >>        \* FF2B -> FF4B

\* hex_to_escaped: the code point of a hex field, or a panic (from_str_radix
\* of an empty field is refused by parse_line before this is asked).
HexOk(c) ==
    /\ c # 0                                   \* assert!(c != 0)
    /\ c \in 0..1114111                        \* char::from_u32(c).unwrap()
    /\ ~(c \in 55296..57343)

\* parse_line on a data line: every field goes through hex_to_escaped, and
\* split(' ') of an empty third field yields one empty string, which
\* from_str_radix refuses.
ParseLinePanics(line) ==
    \/ ~(line.status \in {"C", "F", "S", "T"})
    \/ ~HexOk(line.from)
    \/ line.to = <<>>
    \/ \E i \in 1..Len(line.to) : ~HexOk(line.to[i])

status_is_f_or_c(line) == line.status = "F" \/ line.status = "C"

\* The array literal written for one entry: the replacement, then NUL blanks.
PadTo3(to) == [i \in 1..MAX_FOLDED_CODE_POINTS |-> IF i <= Len(to) THEN to[i] ELSE NUL]

\* One iteration of main's loop over the lines: a blank or comment line is
\* skipped, a line of another status is parsed and skipped, an F or C line is
\* asserted to hold at most 3 code points and written.  The result is the
\* table with the line's entry appended, or "panic".
BuildLine(table, line) ==
    IF line.blank THEN [panic |-> FALSE, table |-> table]
    ELSE IF ParseLinePanics(line) THEN [panic |-> TRUE, table |-> table]
    ELSE IF ~status_is_f_or_c(line) THEN [panic |-> FALSE, table |-> table]
    ELSE IF ~(Len(line.to) <= MAX_FOLDED_CODE_POINTS) THEN [panic |-> TRUE, table |-> table]
    ELSE [panic |-> FALSE,
          table |-> Append(table, [source |-> line.from, folded |-> PadTo3(line.to)])]

RECURSIVE BuildAll(_, _)
BuildAll(table, lines) ==
    IF lines = <<>> THEN table
    ELSE BuildAll(BuildLine(table, Head(lines)).table, Tail(lines))

DataLine(l) == [blank |-> FALSE, from |-> l.from, status |-> l.status, to |-> l.to]

\* case_folding_data.rs as the build script writes it from the excerpt.
CASE_FOLDING_TABLE == BuildAll(<<>>, [i \in 1..Len(CaseFoldingTxt) |-> DataLine(CaseFoldingTxt[i])])

-----------------------------------------------------------------------------
(* lib.rs: CaseFold *)

\* slice::binary_search_by(|&(x, _)| x.cmp(&c)) over table[lo .. hi-1]:
\* the index of an entry whose source is c, or 0 for Err.
RECURSIVE BinarySearch(_, _, _, _)
BinarySearch(table, c, lo, hi) ==
    IF lo >= hi THEN 0
    ELSE LET mid == lo + ((hi - lo) \div 2)
         IN  IF table[mid].source = c THEN mid
             ELSE IF table[mid].source < c THEN BinarySearch(table, c, mid + 1, hi)
             ELSE BinarySearch(table, c, lo, mid)

Lookup(c) == BinarySearch(CASE_FOLDING_TABLE, c, 1, Len(CASE_FOLDING_TABLE) + 1)

\* default_case_fold: a new CaseFold over an upstream.
NewCaseFold(s) == [chars |-> s, queue |-> <<NUL, NUL>>]

\* A mutant of CaseFoldNext: the third replacement code point is not queued.
CaseFoldNext_DropsThird(it) ==
    IF it.queue[1] # NUL
    THEN [chars |-> it.chars, queue |-> <<it.queue[2], NUL>>, ret |-> <<it.queue[1]>>]
    ELSE IF it.chars = <<>>
    THEN [chars |-> it.chars, queue |-> it.queue, ret |-> <<>>]
    ELSE LET c == Head(it.chars)
             i == Lookup(c)
         IN  IF i = 0
             THEN [chars |-> Tail(it.chars), queue |-> it.queue, ret |-> <<c>>]
             ELSE LET folded == CASE_FOLDING_TABLE[i].folded
                  IN  [chars |-> Tail(it.chars),
                       queue |-> <<folded[2], NUL>>,
                       ret   |-> <<folded[1]>>]

\* A mutant of CaseFoldNext: the code point read is returned in place of
\* folded[0].
CaseFoldNext_ReturnsSource(it) ==
    IF it.queue[1] # NUL
    THEN [chars |-> it.chars, queue |-> <<it.queue[2], NUL>>, ret |-> <<it.queue[1]>>]
    ELSE IF it.chars = <<>>
    THEN [chars |-> it.chars, queue |-> it.queue, ret |-> <<>>]
    ELSE LET c == Head(it.chars)
             i == Lookup(c)
         IN  IF i = 0
             THEN [chars |-> Tail(it.chars), queue |-> it.queue, ret |-> <<c>>]
             ELSE LET folded == CASE_FOLDING_TABLE[i].folded
                  IN  [chars |-> Tail(it.chars),
                       queue |-> <<folded[2], folded[3]>>,
                       ret   |-> <<c>>]

\* A mutant of CaseFoldNext: the queue is refilled from the wrong slots.
CaseFoldNext_QueueSwapped(it) ==
    IF it.queue[1] # NUL
    THEN [chars |-> it.chars, queue |-> <<it.queue[2], NUL>>, ret |-> <<it.queue[1]>>]
    ELSE IF it.chars = <<>>
    THEN [chars |-> it.chars, queue |-> it.queue, ret |-> <<>>]
    ELSE LET c == Head(it.chars)
             i == Lookup(c)
         IN  IF i = 0
             THEN [chars |-> Tail(it.chars), queue |-> it.queue, ret |-> <<c>>]
             ELSE LET folded == CASE_FOLDING_TABLE[i].folded
                  IN  [chars |-> Tail(it.chars),
                       queue |-> <<folded[3], folded[2]>>,
                       ret   |-> <<folded[1]>>]

\* CaseFold::next on the iterator `it`: the iterator after the call and what
\* the call returns.
CaseFoldNext(it) ==
    IF it.queue[1] # NUL
    THEN [chars |-> it.chars, queue |-> <<it.queue[2], NUL>>, ret |-> <<it.queue[1]>>]
    ELSE IF it.chars = <<>>
    THEN [chars |-> it.chars, queue |-> it.queue, ret |-> <<>>]
    ELSE LET c == Head(it.chars)
             i == Lookup(c)
         IN  IF i = 0
             THEN [chars |-> Tail(it.chars), queue |-> it.queue, ret |-> <<c>>]
             ELSE LET folded == CASE_FOLDING_TABLE[i].folded
                  IN  [chars |-> Tail(it.chars),
                       queue |-> <<folded[2], folded[3]>>,
                       ret   |-> <<folded[1]>>]

\* Iterator::collect on a CaseFold: next() until it returns None.
RECURSIVE CollectFold(_)
CollectFold(it) ==
    LET r == CaseFoldNext(it)
    IN  IF r.ret = <<>> THEN <<>>
        ELSE r.ret \o CollectFold([chars |-> r.chars, queue |-> r.queue])

\* default_case_fold_str
default_case_fold_str(s) == CollectFold(NewCaseFold(s))

\* The upstream's size_hint: an exact-size iterator reports its length, as
\* far as a usize can hold it.
UpstreamSizeHint(s) ==
    [low |-> Min(Len(s), UsizeMax), high |-> IF Len(s) <= UsizeMax THEN <<Len(s)>> ELSE <<>>]

\* A mutant of size_hint: the upper bound allows 2 code points per input.
size_hint_TimesTwo(it) ==
    LET queue_len == IF it.queue[1] = NUL THEN 0 ELSE IF it.queue[2] = NUL THEN 1 ELSE 2
        up == UpstreamSizeHint(it.chars)
        mul == IF up.high = <<>> THEN <<>>
               ELSE IF up.high[1] * 2 > UsizeMax THEN <<>> ELSE <<up.high[1] * 2>>
        add == IF mul = <<>> THEN <<>>
               ELSE IF mul[1] + queue_len > UsizeMax THEN <<>> ELSE <<mul[1] + queue_len>>
    IN  [low |-> Min(up.low + queue_len, UsizeMax), high |-> add]

\* CaseFold::size_hint
size_hint(it) ==
    LET queue_len == IF it.queue[1] = NUL THEN 0 ELSE IF it.queue[2] = NUL THEN 1 ELSE 2
        up == UpstreamSizeHint(it.chars)
        \* high.and_then(|h| h.checked_mul(3))
        mul == IF up.high = <<>> THEN <<>>
               ELSE IF up.high[1] * 3 > UsizeMax THEN <<>> ELSE <<up.high[1] * 3>>
        \* .and_then(|h| h.checked_add(queue_len))
        add == IF mul = <<>> THEN <<>>
               ELSE IF mul[1] + queue_len > UsizeMax THEN <<>> ELSE <<mul[1] + queue_len>>
    IN  [low |-> Min(up.low + queue_len, UsizeMax), high |-> add]

-----------------------------------------------------------------------------
(* Spec: one CaseFold iterator driven by next() *)

\* The code points inputs of the case-fold iterator are drawn from: NUL,
\* letters with 1, 2 and 3 replacement code points, a Cherokee small letter,
\* and letters the table does not hold.
FoldAlphabet == {NUL, 65, 97, 115, 223, 43888, 64259}

Idle == [state |-> "idle"]

Init ==
    /\ input \in SeqsUpTo(FoldAlphabet, MaxLen)
    /\ chars = input
    /\ queue = <<NUL, NUL>>
    /\ output = <<>>
    /\ done = FALSE
    /\ eq = Idle /\ dec = Idle /\ mat = Idle /\ bld = Idle

\* One call of CaseFold::next by the consumer.
CaseFoldIterNext ==
    LET r == CaseFoldNext([chars |-> chars, queue |-> queue])
    IN  /\ chars' = r.chars
        /\ queue' = r.queue
        /\ output' = output \o r.ret
        /\ done' = (r.ret = <<>>)
        /\ UNCHANGED <<input, eq, dec, mat, bld>>

Next == CaseFoldIterNext

Spec == Init /\ [][Next]_vars

-----------------------------------------------------------------------------
(* What the claims about CaseFold are stated with *)

\* The table's entry for c read straight off the table (no search), without
\* the NUL blanks; c itself when no entry has c as its source.
Replacement(c) ==
    LET hits == {i \in 1..Len(CASE_FOLDING_TABLE) : CASE_FOLDING_TABLE[i].source = c}
    IN  IF hits = {} THEN <<c>>
        ELSE SelectSeq(CASE_FOLDING_TABLE[CHOOSE i \in hits : TRUE].folded, LAMBDA x : x # NUL)

Expected(s) == Flatten([i \in 1..Len(s) |-> Replacement(s[i])])

\* The queue's slots in the order next() pops them.
Pending(q) == SelectSeq(q, LAMBDA x : x # NUL)

\* C1: at every point of a run, what next() has returned, then what the
\* queue holds, then the replacements of what upstream has not yielded yet, is
\* the concatenation in input order of every input code point's replacement
\* (the code point itself when the table has no entry for it); so when next()
\* returns None the output is exactly that concatenation.
C1_OutputIsConcatenationOfReplacements ==
    /\ output \o Pending(queue) \o Expected(chars) = Expected(input)
    /\ done => output = Expected(input)

C1_Witness ==
    /\ done
    /\ input = <<64259, 97, 223>>
    /\ output = <<102, 102, 105, 97, 115, 115>>

\* C5: folding the output of a completed fold again yields that output, and
\* no code point of a table replacement is a source of the table.
C5_FoldIsIdempotent ==
    /\ done => default_case_fold_str(output) = output
    /\ \A i \in 1..Len(CASE_FOLDING_TABLE) : \A k \in 1..MAX_FOLDED_CODE_POINTS :
          LET r == CASE_FOLDING_TABLE[i].folded[k]
          IN  r # NUL => Lookup(r) = 0

C5_Witness ==
    /\ done
    /\ input = <<43888, 223, 65>>
    /\ output = <<5024, 115, 115, 97>>
    /\ default_case_fold_str(output) = output

\* Slot 0 empty implies slot 1 empty.
QueueContiguous == queue[1] = NUL => queue[2] = NUL

\* What the queue holds is the rest of one table replacement after its first
\* code point.
QueueFromTable ==
    queue # <<NUL, NUL>> =>
        \E i \in 1..Len(CASE_FOLDING_TABLE) :
            LET f == Pending(CASE_FOLDING_TABLE[i].folded)
            IN  \E k \in 2..Len(f) : Pending(queue) = SubSeq(f, k, Len(f))

\* A step leaves upstream alone when the queue is occupied, and takes at most
\* its first code point otherwise.
PullsOnlyWhenQueueEmpty ==
    /\ queue[1] # NUL => chars' = chars
    /\ chars' = chars \/ (chars # <<>> /\ chars' = Tail(chars))

\* C9: in every reachable state the queue holds at most 2 code points, its
\* occupied slots are contiguous from slot 0 and hold what is left of one
\* table replacement (never a NUL); a call of next() that finds the queue
\* occupied leaves upstream alone, and no call takes more than one code point
\* from upstream.
C9_QueueInvariantAndPullDiscipline ==
    /\ [](Len(Pending(queue)) <= 2 /\ QueueContiguous /\ QueueFromTable)
    /\ [][PullsOnlyWhenQueueEmpty]_vars

C9_Witness ==
    /\ input = <<64259, 65>>
    /\ queue = <<105, NUL>>
    /\ output = <<102, 102>>
    /\ chars = <<65>>

\* C10: size_hint's lower bound is upstream's low plus the queue's length,
\* saturating; its upper bound is 3 times upstream's high plus the queue's
\* length, absent when that overflows; and the number of code points next()
\* still returns lies between the two.
C10_SizeHintBoundsRemainingOutput ==
    LET it == [chars |-> chars, queue |-> queue]
        h == size_hint(it)
        up == UpstreamSizeHint(chars)
        qlen == Len(Pending(queue))
        remaining == Len(CollectFold(it))
    IN  /\ h.low = Min(up.low + qlen, UsizeMax)
        /\ h.high = IF up.high # <<>> /\ 3 * up.high[1] + qlen <= UsizeMax
                    THEN <<3 * up.high[1] + qlen>> ELSE <<>>
        /\ h.low <= remaining
        /\ h.high # <<>> => remaining <= h.high[1]

C10_Witness ==
    /\ input = <<64259, 65>>
    /\ chars = <<65>>
    /\ queue = <<102, 105>>
    /\ size_hint([chars |-> chars, queue |-> queue]) = [low |-> 3, high |-> <<>>]
    /\ Len(CollectFold([chars |-> chars, queue |-> queue])) = 3

-----------------------------------------------------------------------------
(* lib.rs: iter_eq and default_caseless_match *)

\* A mutant of IterEqMatch: a mismatching pair does not end the loop.
IterEqMatch_IgnoresMismatch(x, y) ==
    IF x = <<>> /\ y = <<>> THEN <<TRUE>>
    ELSE IF x = <<>> \/ y = <<>> THEN <<FALSE>>
    ELSE <<>>

\* A mutant of IterEqMatch: the left stream ending first counts as a match.
IterEqMatch_LeftPrefixMatches(x, y) ==
    IF x = <<>> THEN <<TRUE>>
    ELSE IF y = <<>> THEN <<FALSE>>
    ELSE IF x[1] # y[1] THEN <<FALSE>>
    ELSE <<>>

\* The match in iter_eq's loop on what the two next() calls returned: the
\* value iter_eq returns, or <<>> when the loop goes on.
IterEqMatch(x, y) ==
    IF x = <<>> /\ y = <<>> THEN <<TRUE>>
    ELSE IF x = <<>> \/ y = <<>> THEN <<FALSE>>
    ELSE IF x[1] # y[1] THEN <<FALSE>>
    ELSE <<>>

\* One iteration of iter_eq's loop over two CaseFold iterators: both next()
\* are called, then the match decides.
IterEqStep(a, b) ==
    LET ra == CaseFoldNext(a)
        rb == CaseFoldNext(b)
    IN  [a |-> [chars |-> ra.chars, queue |-> ra.queue],
         b |-> [chars |-> rb.chars, queue |-> rb.queue],
         ret |-> IterEqMatch(ra.ret, rb.ret)]

\* iter_eq: the loop until it returns.
RECURSIVE iter_eq(_, _)
iter_eq(a, b) ==
    LET r == IterEqStep(a, b)
    IN  IF r.ret # <<>> THEN r.ret[1] ELSE iter_eq(r.a, r.b)

default_caseless_match(a, b) == iter_eq(NewCaseFold(a), NewCaseFold(b))

-----------------------------------------------------------------------------
(* SpecEq: default_caseless_match, one loop iteration of iter_eq at a time *)

EqAlphabet == {65, 83, 115, 223}

IdleFold ==
    /\ input = <<>> /\ chars = <<>> /\ queue = <<NUL, NUL>>
    /\ output = <<>> /\ done = FALSE

InitEq ==
    /\ IdleFold
    /\ \E x \in SeqsUpTo(EqAlphabet, MaxEqLen), y \in SeqsUpTo(EqAlphabet, MaxEqLen) :
          eq = [state |-> "running", ia |-> x, ib |-> y,
                a |-> NewCaseFold(x), b |-> NewCaseFold(y),
                pulls |-> 0, ret |-> FALSE]
    /\ dec = Idle /\ mat = Idle /\ bld = Idle

IterEqLoop ==
    /\ eq.state = "running"
    /\ LET r == IterEqStep(eq.a, eq.b)
       IN  eq' = [eq EXCEPT !.a = r.a, !.b = r.b, !.pulls = @ + 1,
                            !.state = IF r.ret = <<>> THEN "running" ELSE "returned",
                            !.ret = IF r.ret = <<>> THEN FALSE ELSE r.ret[1]]
    /\ UNCHANGED <<input, chars, queue, output, done, dec, mat, bld>>

NextEq == IterEqLoop

SpecEq == InitEq /\ [][NextEq]_vars

\* The first position at which two streams stop agreeing: a mismatching pair,
\* or the end of one of them (of both, when they are equal).
FirstDivergence(sa, sb) ==
    CHOOSE i \in 1..(Min(Len(sa), Len(sb)) + 1) :
        /\ \A j \in 1..(i - 1) : sa[j] = sb[j]
        /\ i > Len(sa) \/ i > Len(sb) \/ sa[i] # sb[i]

\* C2: iter_eq returns at the first pull where the streams stop agreeing;
\* it returns true exactly when both streams end at that pull, false when
\* the pair mismatches or only one stream ends there.
C2_IterEqTrueIffStreamsEndTogether ==
    eq.state = "returned" =>
        LET sa == default_case_fold_str(eq.ia)
            sb == default_case_fold_str(eq.ib)
            k == FirstDivergence(sa, sb)
        IN  /\ eq.pulls = k
            /\ eq.ret = (k > Len(sa) /\ k > Len(sb))
            /\ eq.ret = (sa = sb)

C2_Witness ==
    /\ eq.state = "returned"
    /\ eq.ia = <<223>>
    /\ eq.ib = <<115>>
    /\ eq.ret = FALSE
    /\ eq.pulls = 2

\* C6: default_caseless_match(a, a) is true, and default_caseless_match(a, b)
\* is default_caseless_match(b, a), which is what the run over (a, b) returns.
C6_DefaultMatchReflexiveSymmetric ==
    eq.state # "idle" =>
        /\ default_caseless_match(eq.ia, eq.ia)
        /\ default_caseless_match(eq.ia, eq.ib) = default_caseless_match(eq.ib, eq.ia)
        /\ eq.state = "returned" => eq.ret = default_caseless_match(eq.ib, eq.ia)

C6_Witness ==
    /\ eq.state = "returned"
    /\ eq.ia = <<223, 83>>
    /\ eq.ib = <<115, 223>>
    /\ eq.ret = TRUE
    /\ default_caseless_match(eq.ib, eq.ia)

-----------------------------------------------------------------------------
(* The decomposition transform behind nfd() and nfkd() *)

\* The Decomposition Mapping: full canonical decompositions.
decompose_canonical(c) ==
    CASE c = 197  -> <<65, 778>>          \* 00C5 -> A, ring above
      [] c = 229  -> <<97, 778>>          \* 00E5 -> a, ring above
      [] c = 8491 -> <<65, 778>>          \* 212B -> A, ring above
      [] c = 8490 -> <<75>>               \* 212A -> K
      [] c = 8131 -> <<951, 837>>         \* 1FC3 -> eta, ypogegrammeni
      [] c = 7784 -> <<83, 803, 775>>     \* 1E68 -> S, dot below, dot above
      [] c = 7785 -> <<115, 803, 775>>    \* 1E69 -> s, dot below, dot above
      [] OTHER    -> <<c>>

\* The Decomposition Mapping: full compatibility decompositions.
decompose_compatible(c) ==
    CASE c = 13202 -> <<77, 72, 122>>     \* 3392 -> M H z
      [] c = 65323 -> <<75>>              \* FF2B -> K
      [] c = 65355 -> <<107>>             \* FF4B -> k
      [] c = 383   -> <<115>>             \* 017F -> s
      [] c = 64259 -> <<102, 102, 105>>   \* FB03 -> f f i
      [] OTHER     -> decompose_canonical(c)

decompose(c, kind) ==
    IF kind = "canonical" THEN decompose_canonical(c) ELSE decompose_compatible(c)

combining_class(c) ==
    CASE c = 807 -> 202                   \* 0327 cedilla
      [] c = 803 -> 220                   \* 0323 dot below
      [] c = 769 -> 230                   \* 0301 acute
      [] c = 775 -> 230                   \* 0307 dot above
      [] c = 776 -> 230                   \* 0308 diaeresis
      [] c = 778 -> 230                   \* 030A ring above
      [] c = 837 -> 240                   \* 0345 ypogegrammeni
      [] OTHER   -> 0

\* One pass of adjacent swaps over positions 1 .. n of the buffer: a pair is
\* swapped only when both classes are non-zero and out of order.
RECURSIVE SortPass(_, _, _, _)
SortPass(buf, j, n, swapped) ==
    IF j > n THEN [buf |-> buf, swapped |-> swapped]
    ELSE IF buf[j - 1].class # 0 /\ buf[j].class # 0 /\ buf[j - 1].class > buf[j].class
         THEN SortPass([buf EXCEPT ![j - 1] = buf[j], ![j] = buf[j - 1]], j + 1, n, TRUE)
         ELSE SortPass(buf, j + 1, n, swapped)

\* The stable reordering: passes until one performs no swap.
RECURSIVE SortFrom(_, _)
SortFrom(buf, i) ==
    IF i >= Len(buf) THEN buf
    ELSE LET p == SortPass(buf, 2, Len(buf) - i, FALSE)
         IN  IF p.swapped THEN SortFrom(p.buf, i + 1) ELSE p.buf

canonical_sort(buf) == SortFrom(buf, 0)

\* Pushing one code point's decomposition onto the buffer: the first class-0
\* element met while the buffer is not sorted has the buffer sorted before it
\* is pushed.
RECURSIVE PushAll(_, _, _)
PushAll(buf, sorted, ds) ==
    IF ds = <<>> THEN [buf |-> buf, sorted |-> sorted]
    ELSE LET d == Head(ds)
             class == combining_class(d)
             sortNow == class = 0 /\ ~sorted
             b1 == IF sortNow THEN canonical_sort(buf) ELSE buf
         IN  PushAll(Append(b1, [ch |-> d, class |-> class]), sorted \/ sortNow, Tail(ds))

\* Step 3: pull from upstream until a class-0 element has been pushed or
\* upstream is exhausted.
RECURSIVE Fill(_, _, _, _)
Fill(cs, buf, sorted, kind) ==
    IF sorted \/ cs = <<>> THEN [chars |-> cs, buf |-> buf, sorted |-> sorted]
    ELSE LET p == PushAll(buf, sorted, decompose(Head(cs), kind))
         IN  Fill(Tail(cs), p.buf, p.sorted, kind)

NewDecomp(s, kind) == [chars |-> s, buf |-> <<>>, sorted |-> FALSE, kind |-> kind]

\* A mutant of DecompNext: the run left in the buffer when upstream ends is
\* emitted as it stands.
DecompNext_NoFlushSort(it) ==
    IF it.buf # <<>> /\ it.buf[1].class = 0
    THEN [it |-> [it EXCEPT !.buf = Tail(it.buf), !.sorted = FALSE], ret |-> <<it.buf[1].ch>>]
    ELSE IF it.buf # <<>> /\ it.sorted
    THEN [it |-> [it EXCEPT !.buf = Tail(it.buf)], ret |-> <<it.buf[1].ch>>]
    ELSE LET f == Fill(it.chars, it.buf, FALSE, it.kind)
             buf == f.buf
         IN  IF buf = <<>>
             THEN [it |-> [it EXCEPT !.chars = f.chars, !.buf = buf, !.sorted = TRUE], ret |-> <<>>]
             ELSE [it |-> [it EXCEPT !.chars = f.chars, !.buf = Tail(buf),
                                     !.sorted = (buf[1].class # 0)],
                   ret |-> <<buf[1].ch>>]

\* The decomposition iterator's next(): steps 1 to 5.
DecompNext(it) ==
    IF it.buf # <<>> /\ it.buf[1].class = 0
    THEN [it |-> [it EXCEPT !.buf = Tail(it.buf), !.sorted = FALSE], ret |-> <<it.buf[1].ch>>]
    ELSE IF it.buf # <<>> /\ it.sorted
    THEN [it |-> [it EXCEPT !.buf = Tail(it.buf)], ret |-> <<it.buf[1].ch>>]
    ELSE LET f == Fill(it.chars, it.buf, FALSE, it.kind)
             buf == IF f.sorted THEN f.buf ELSE canonical_sort(f.buf)
         IN  IF buf = <<>>
             THEN [it |-> [it EXCEPT !.chars = f.chars, !.buf = buf, !.sorted = TRUE], ret |-> <<>>]
             ELSE [it |-> [it EXCEPT !.chars = f.chars, !.buf = Tail(buf),
                                     !.sorted = (buf[1].class # 0)],
                   ret |-> <<buf[1].ch>>]

RECURSIVE CollectDecomp(_)
CollectDecomp(it) ==
    LET r == DecompNext(it)
    IN  IF r.ret = <<>> THEN <<>> ELSE r.ret \o CollectDecomp(r.it)

nfd(s) == CollectDecomp(NewDecomp(s, "canonical"))
nfkd(s) == CollectDecomp(NewDecomp(s, "compatible"))

-----------------------------------------------------------------------------
(* SpecDecomp: one decomposition iterator driven by next() *)

\* Marks of classes 202, 220, 230 (two of them) and 240, a starter, and two
\* code points whose decompositions carry marks.
DecAlphabet == {65, 197, 775, 778, 803, 807, 837, 7785}

InitDecomp ==
    /\ IdleFold
    /\ \E x \in SeqsUpTo(DecAlphabet, MaxDecLen), k \in {"canonical", "compatible"} :
          dec = [state |-> "running", input |-> x, it |-> NewDecomp(x, k), output |-> <<>>]
    /\ eq = Idle /\ mat = Idle /\ bld = Idle

DecompIterNext ==
    /\ dec.state = "running"
    /\ LET r == DecompNext(dec.it)
       IN  dec' = [dec EXCEPT !.it = r.it, !.output = @ \o r.ret,
                              !.state = IF r.ret = <<>> THEN "done" ELSE "running"]
    /\ UNCHANGED <<input, chars, queue, output, done, eq, mat, bld>>

NextDecomp == DecompIterNext

SpecDecomp == InitDecomp /\ [][NextDecomp]_vars

\* The decomposed code points in input order, before any reordering.
Decomposed(s, kind) == Flatten([i \in 1..Len(s) |-> decompose(s[i], kind)])

\* The run of non-zero-class code points that position i of s lies in: the
\* positions from the last class-0 code point before i to the next one.
RunOf(s, i) ==
    {j \in 1..Len(s) : \A k \in Min(i, j)..(IF i > j THEN i ELSE j) : combining_class(s[k]) # 0}

\* t is s in canonical order: a rearrangement (pos maps positions of t to
\* positions of s) that keeps every class-0 code point in place, moves a mark
\* only within its run, and orders each run by class, equal classes in their
\* original order.
IsCanonicalOrderOf(t, s) ==
    /\ Len(t) = Len(s)
    /\ \A i \in 1..Len(s) : combining_class(s[i]) = 0 => t[i] = s[i]
    /\ \A i \in 1..Len(t) : combining_class(t[i]) = 0 => t[i] = s[i]
    /\ \A i \in 1..Len(s) : combining_class(s[i]) # 0 =>
          LET run == RunOf(s, i)
              first == CHOOSE j \in run : \A k \in run : j <= k
              \* the rank of i in its run, by (class, original position)
              before == {j \in run :
                            \/ combining_class(s[j]) < combining_class(s[i])
                            \/ combining_class(s[j]) = combining_class(s[i]) /\ j < i}
          IN  t[first + Cardinality(before)] = s[i]

\* C7: when the iterator ends, what it has emitted is the decomposition of
\* the input in canonical order: every run of marks between class-0 code
\* points (and the last run, flushed at the end of the input) in
\* non-decreasing class order, equal classes in their original order, class-0
\* code points in place, every decomposed code point exactly once; and while
\* it runs, what it has emitted is a prefix of that.
C7_DecompositionInCanonicalOrder ==
    dec.state # "idle" =>
        LET d == Decomposed(dec.input, dec.it.kind)
        IN  /\ Len(dec.output) <= Len(d)
            /\ IsCanonicalOrderOf(dec.output \o CollectDecomp(dec.it), d)
            /\ dec.state = "done" => IsCanonicalOrderOf(dec.output, d)

C7_Witness ==
    /\ dec.state = "done"
    /\ dec.input = <<7785, 807, 65>>
    /\ dec.output = <<115, 807, 803, 775, 65>>

-----------------------------------------------------------------------------
(* lib.rs: canonical_caseless_match and compatibility_caseless_match *)

\* A mutant of CanonicalStream: the operand is only case folded, as in
\* default_caseless_match.
CanonicalStream_NoNormalization(s) == default_case_fold_str(s)

\* self.nfd().default_case_fold().nfd(), collected
CanonicalStream(s) == nfd(default_case_fold_str(nfd(s)))

\* A mutant of CompatibilityStream: the second fold-then-decompose cycle is
\* missing.
CompatibilityStream_OneCycle(s) == nfkd(default_case_fold_str(nfd(s)))

\* self.nfd().default_case_fold().nfkd().default_case_fold().nfkd(), collected
CompatibilityStream(s) ==
    nfkd(default_case_fold_str(nfkd(default_case_fold_str(nfd(s)))))

\* iter_eq over two streams given by what they yield.
RECURSIVE iter_eq_streams(_, _)
iter_eq_streams(sa, sb) ==
    LET r == IterEqMatch(IF sa = <<>> THEN <<>> ELSE <<Head(sa)>>,
                         IF sb = <<>> THEN <<>> ELSE <<Head(sb)>>)
    IN  IF r # <<>> THEN r[1] ELSE iter_eq_streams(Tail(sa), Tail(sb))

canonical_caseless_match(a, b) == iter_eq_streams(CanonicalStream(a), CanonicalStream(b))

compatibility_caseless_match(a, b) ==
    iter_eq_streams(CompatibilityStream(a), CompatibilityStream(b))

-----------------------------------------------------------------------------
(* SpecMatch: calls of the canonical and the compatibility matcher *)

\* Precomposed letters (one with ypogegrammeni, one with two marks), a
\* squared unit and a full-width letter, two marks, a plain letter.
MatchAlphabet == {97, 197, 778, 803, 7784, 8131, 13202, 65323}

\* The sequences that stand for s with each code point either kept or
\* replaced by one of the given decompositions.
RECURSIVE Variants(_, _)
Variants(s, kinds) ==
    IF s = <<>> THEN {<<>>}
    ELSE {h \o t : h \in {<<Head(s)>>} \cup {decompose(Head(s), k) : k \in kinds},
                   t \in Variants(Tail(s), kinds)}

InitMatch ==
    /\ IdleFold
    /\ \E x \in SeqsUpTo(MatchAlphabet, MaxMatchLen), algo \in {"canonical", "compatibility"} :
          \E y \in Variants(x, {"canonical", "compatible"}) \cup SeqsUpTo(MatchAlphabet, 1) :
              mat = [state |-> "called", algo |-> algo, a |-> x, b |-> y, ret |-> FALSE]
    /\ eq = Idle /\ dec = Idle /\ bld = Idle

CanonicalCaselessMatch ==
    /\ mat.state = "called" /\ mat.algo = "canonical"
    /\ mat' = [mat EXCEPT !.state = "returned", !.ret = canonical_caseless_match(mat.a, mat.b)]
    /\ UNCHANGED <<input, chars, queue, output, done, eq, dec, bld>>

CompatibilityCaselessMatch ==
    /\ mat.state = "called" /\ mat.algo = "compatibility"
    /\ mat' = [mat EXCEPT !.state = "returned",
                          !.ret = compatibility_caseless_match(mat.a, mat.b)]
    /\ UNCHANGED <<input, chars, queue, output, done, eq, dec, bld>>

NextMatch == CanonicalCaselessMatch \/ CompatibilityCaselessMatch

SpecMatch == InitMatch /\ [][NextMatch]_vars

C4_CompatibilityMatchEquatesCompatibilityDecomposition ==
    (mat.state = "returned" /\ mat.algo = "compatibility"
        /\ mat.b \in Variants(mat.a, {"canonical", "compatible"})) =>
            /\ mat.ret = TRUE
            /\ compatibility_caseless_match(mat.b, mat.a)

C4_Witness ==
    /\ mat.state = "returned" /\ mat.algo = "compatibility"
    /\ mat.a = <<13202, 65323>>
    /\ mat.b = <<77, 72, 122, 75>>
    /\ mat.ret = TRUE

-----------------------------------------------------------------------------
(* SpecBuild: the build script over an arbitrary data file, line by line *)

BlankLine == [blank |-> TRUE, from |-> 0, status |-> "", to |-> <<>>]

\* Lines a data file may hold: entries of 1, 2 and 3 code points, a line of
\* a status that is skipped, a comment, and lines that break the table's
\* invariant (no replacement, four code points, a NUL).
LinePool ==
    { DataLine([from |-> 65,    status |-> "C", to |-> <<97>>]),
      DataLine([from |-> 223,   status |-> "F", to |-> <<115, 115>>]),
      DataLine([from |-> 64259, status |-> "F", to |-> <<102, 102, 105>>]),
      DataLine([from |-> 73,    status |-> "T", to |-> <<305>>]),
      BlankLine,
      DataLine([from |-> 66,    status |-> "C", to |-> <<>>]),
      DataLine([from |-> 67,    status |-> "F", to |-> <<97, 98, 99, 100>>]),
      DataLine([from |-> 68,    status |-> "C", to |-> <<NUL>>]) }

InitBuild ==
    /\ IdleFold
    /\ \E ls \in SeqsUpTo(LinePool, MaxLines) :
          bld = [state |-> "running", lines |-> ls, table |-> <<>>]
    /\ eq = Idle /\ dec = Idle /\ mat = Idle

\* One iteration of `for line in lines`.
BuildReadLine ==
    /\ bld.state = "running" /\ bld.lines # <<>>
    /\ LET r == BuildLine(bld.table, Head(bld.lines))
       IN  bld' = [state |-> IF r.panic THEN "panicked" ELSE "running",
                   lines |-> Tail(bld.lines), table |-> r.table]
    /\ UNCHANGED <<input, chars, queue, output, done, eq, dec, mat>>

\* The loop is over: the closing bracket is written and main returns.
BuildFinish ==
    /\ bld.state = "running" /\ bld.lines = <<>>
    /\ bld' = [bld EXCEPT !.state = "done"]
    /\ UNCHANGED <<input, chars, queue, output, done, eq, dec, mat>>

NextBuild == BuildReadLine \/ BuildFinish

SpecBuild == InitBuild /\ [][NextBuild]_vars

\* The Fold Table invariant: sources strictly increasing, 1 to 3 replacement
\* code points per entry, none of them NUL, blanks only after them.
TableInvariant(table) ==
    /\ \A i \in 1..(Len(table) - 1) : table[i].source < table[i + 1].source
    /\ \A i \in 1..Len(table) :
          /\ table[i].folded[1] # NUL
          /\ table[i].folded[2] = NUL => table[i].folded[3] = NUL

\* C8: every table the build script completes satisfies the Fold Table
\* invariant (it aborts on zero or more than three replacement code points
\* and on sources that are not sorted and unique).
C8_CompletedTableSatisfiesInvariant ==
    bld.state = "done" => TableInvariant(bld.table)

==========================================================================
